---------------------------- MODULE Spec2Model ----------------------------
(***************************************************************************)
(* A model of the DATANORM barcode plugin for InvenTree                    *)
(* (inventree_datanorm_import): the EAN validator, the part factory with   *)
(* its category and company resolvers, and the scan pipeline that builds   *)
(* a part, one manufacturer part and the supplier parts from the DATANORM  *)
(* items found for a scanned EAN.                                          *)
(*                                                                         *)
(* Python strings that the code slices, searches or changes the case of    *)
(* are sequences of one-character strings; None is the value None below;   *)
(* a primary key is the position of a row in its table, and 0 stands for   *)
(* "no row" (a null foreign key, a query without result).                  *)
(***************************************************************************)
EXTENDS Integers, Sequences, FiniteSets, TLC

VARIABLES
    parts,               \* table Part: rows in order of creation
    categories,          \* table PartCategory
    companies,           \* table Company
    manufacturer_parts,  \* table ManufacturerPart
    supplier_parts,      \* table SupplierPart
    settings,            \* the plugin's SETTINGS values
    db_like_ci,          \* whether the database's LIKE (name__contains) ignores case
    db_first_lowest,     \* whether first() takes the matching row of lowest pk
    last,                \* the last call made: [op, arg, ret]
    prev                 \* the call on the tables before it

vars == <<parts, categories, companies, manufacturer_parts, supplier_parts,
          settings, db_like_ci, db_first_lowest, last, prev>>

store == <<parts, categories, companies, manufacturer_parts, supplier_parts>>

-----------------------------------------------------------------------------
(* Python values and string operations *)

\* None, told apart from every string of characters
None == <<"None">>

Digits == <<"0", "1", "2", "3", "4", "5", "6", "7", "8", "9">>

IsDigit(c) == \E i \in 1..Len(Digits) : Digits[i] = c

\* int(c) of a one-character string that is a digit
DigitValue(c) == (CHOOSE i \in 1..Len(Digits) : Digits[i] = c) - 1

UpperCase ==
    <<"A", "B", "C", "D", "E", "F", "G", "H", "I", "J", "K", "L", "M", "N",
      "O", "P", "Q", "R", "S", "T", "U", "V", "W", "X", "Y", "Z">>
LowerCase ==
    <<"a", "b", "c", "d", "e", "f", "g", "h", "i", "j", "k", "l", "m", "n",
      "o", "p", "q", "r", "s", "t", "u", "v", "w", "x", "y", "z">>

\* str.upper() and str.lower() of one character
UpperChar(c) ==
    IF \E i \in 1..Len(LowerCase) : LowerCase[i] = c
    THEN UpperCase[CHOOSE i \in 1..Len(LowerCase) : LowerCase[i] = c]
    ELSE c

LowerChar(c) ==
    IF \E i \in 1..Len(UpperCase) : UpperCase[i] = c
    THEN LowerCase[CHOOSE i \in 1..Len(UpperCase) : UpperCase[i] = c]
    ELSE c

Upper(s) == [i \in 1..Len(s) |-> UpperChar(s[i])]

Lower(s) == [i \in 1..Len(s) |-> LowerChar(s[i])]

\* s[::-1]
Reversed(s) == [i \in 1..Len(s) |-> s[Len(s) + 1 - i]]

\* s[:-1]
AllButLast(s) == SubSeq(s, 1, Len(s) - 1)

\* needle in hay
Contains(hay, needle) ==
    \E k \in 0..(Len(hay) - Len(needle)) :
        \A i \in 1..Len(needle) : hay[k + i] = needle[i]

\* QuerySet.first() on the rows a filter matches (their positions in the
\* table), 0 if there is none. The rows come in the order of the model's
\* Meta.ordering, which is not the plugin's to choose: one order for every
\* query, by rising pk or the reverse of it.
First(matching) ==
    IF matching = {} THEN 0
    ELSE CHOOSE i \in matching :
            \A j \in matching : IF db_first_lowest THEN i <= j ELSE i >= j

RECURSIVE SumSeq(_)
SumSeq(s) == IF s = <<>> THEN 0 ELSE s[1] + SumSeq(Tail(s))

-----------------------------------------------------------------------------
(* DatanormBarcodePlugin.is_valid_ean_code *)

\* "131313131313"[::-1]
factor == Reversed(<<"1", "3", "1", "3", "1", "3", "1", "3", "1", "3", "1", "3">>)

EanLengths == {8, 13}

\* the weights read from the other end of "131313131313": 1 on the rightmost
\* digit of the prefix
WeightedSumAltWeights(flipped_prefix) ==
    SumSeq([i \in 1..Len(flipped_prefix) |->
                DigitValue(flipped_prefix[i]) * DigitValue(Reversed(factor)[i])])

\* the sum of the loop over the flipped prefix: 3 on the rightmost digit of
\* the prefix
WeightedSum(flipped_prefix) ==
    SumSeq([i \in 1..Len(flipped_prefix) |->
                DigitValue(flipped_prefix[i]) * DigitValue(factor[i])])

\* The outcome of the call: "True", "False", or the exception it ends in.
\* int(code[-1]) runs before the length is looked at; the loop's int(digit)
\* runs only for a code of 8 or 13 characters.
is_valid_ean_code(code) ==
    IF Len(code) = 0 THEN "IndexError"
    ELSE IF ~IsDigit(code[Len(code)]) THEN "ValueError"
    ELSE IF Len(code) \in EanLengths
         THEN LET checksum == DigitValue(code[Len(code)])
                  flipped_prefix == Reversed(AllButLast(code))
              IN  IF \E i \in 1..Len(flipped_prefix) : ~IsDigit(flipped_prefix[i])
                  THEN "ValueError"
                  ELSE LET sum_if_digits == WeightedSum(flipped_prefix)
                           last_digit == sum_if_digits % 10
                           computed_checksum == (10 - last_digit) % 10
                       IN  IF checksum = computed_checksum THEN "True" ELSE "False"
         ELSE "False"

-----------------------------------------------------------------------------
(* PartFactory.format_si_units *)

\* the table without unit.upper()
format_si_units_case_sensitive(unit) ==
    LET upper_unit == unit
    IN  IF upper_unit = <<"S", "T", "C", "K">> \/ upper_unit = <<"S", "T", "K">> THEN <<>>
        ELSE IF \/ upper_unit = <<"M", "T", "R">>
                \/ upper_unit = <<"M">>
                \/ upper_unit = <<"L", "F", "M">> THEN <<"m">>
        ELSE IF upper_unit = <<"V", "E">> THEN <<>>
        ELSE IF upper_unit = <<"K", "G">> THEN <<"k", "g">>
        ELSE <<>>

format_si_units(unit) ==
    LET upper_unit == Upper(unit)
    IN  IF upper_unit = <<"S", "T", "C", "K">> \/ upper_unit = <<"S", "T", "K">> THEN <<>>
        ELSE IF \/ upper_unit = <<"M", "T", "R">>
                \/ upper_unit = <<"M">>
                \/ upper_unit = <<"L", "F", "M">> THEN <<"m">>
        ELSE IF upper_unit = <<"V", "E">> THEN <<>>
        ELSE IF upper_unit = <<"K", "G">> THEN <<"k", "g">>
        ELSE <<>>

-----------------------------------------------------------------------------
(* The persistence layer: five tables, a row's primary key its position *)

DB == [parts |-> parts, categories |-> categories, companies |-> companies,
       manufacturer_parts |-> manufacturer_parts, supplier_parts |-> supplier_parts]

EmptyDB == [parts |-> <<>>, categories |-> <<>>, companies |-> <<>>,
            manufacturer_parts |-> <<>>, supplier_parts |-> <<>>]

\* InvenTree.helpers.hash_barcode: a hash of the raw barcode data
hash_barcode(barcode_data) == <<"hash">> \o barcode_data

\* the part row left as it is: the barcode not saved
assign_barcode_not_saved(part, barcode_hash, barcode_data) == part

\* Part.assign_barcode(barcode_hash, barcode_data) on a part row
assign_barcode(part, barcode_hash, barcode_data) ==
    [part EXCEPT !.barcode_hash = barcode_hash, !.barcode_data = barcode_data]

\* str.strip() of blanks
RECURSIVE LStrip(_)
LStrip(s) == IF s # <<>> /\ s[1] = " " THEN LStrip(Tail(s)) ELSE s

Strip(s) == Reversed(LStrip(Reversed(LStrip(s))))

-----------------------------------------------------------------------------
(* PartFactory.get_category_by_name *)

\* a category made without a look at the stored ones
get_category_by_name_always_new(db, category_name, parent_name) ==
    [db |-> [db EXCEPT !.categories = Append(@, [name |-> category_name, parent |-> 0])],
     pk |-> Len(db.categories) + 1]

\* a category of the name is taken whatever its parent, and a new one is a
\* root: the parent name is not looked at
get_category_by_name_of_any_parent(db, category_name, parent_name) ==
    IF \E pk \in 1..Len(db.categories) : db.categories[pk].name = category_name
    THEN [db |-> db,
          pk |-> First({pk \in 1..Len(db.categories) :
                           db.categories[pk].name = category_name})]
    ELSE get_category_by_name_always_new(db, category_name, parent_name)

\* the lookup without a parent name finds a category of that name at any level
get_category_by_name(db, category_name, parent_name) ==
    LET parent_found == First({pk \in 1..Len(db.categories) :
                                  db.categories[pk].name = parent_name})
        db1 == IF parent_name # "" /\ parent_found = 0
               THEN [db EXCEPT !.categories =
                        Append(@, [name |-> parent_name, parent |-> 0])]
               ELSE db
        parent == IF parent_name = "" THEN 0
                  ELSE IF parent_found = 0 THEN Len(db1.categories)
                  ELSE parent_found
        category == IF parent_name = ""
                    THEN First({pk \in 1..Len(db1.categories) :
                                   db1.categories[pk].name = category_name})
                    ELSE First({pk \in 1..Len(db1.categories) :
                                   /\ db1.categories[pk].name = category_name
                                   /\ db1.categories[pk].parent = parent})
    IN  IF category = 0
        THEN [db |-> [db1 EXCEPT !.categories =
                         Append(@, [name |-> category_name, parent |-> parent])],
              pk |-> Len(db1.categories) + 1]
        ELSE [db |-> db1, pk |-> category]

-----------------------------------------------------------------------------
(* PartFactory.get_company_by_name *)

\* the containment the other way round: the stored name within the needle
name__within(name, needle) == Contains(needle, name)

\* name__contains: LIKE '%needle%', whose case sensitivity is the database's
name__contains(name, needle) ==
    IF db_like_ci THEN Contains(Lower(name), Lower(needle))
    ELSE Contains(name, needle)

\* name__exact: equality, case and all
name__exact(name, other) == name = other

name__iexact(name, other) == Lower(name) = Lower(other)

\* the flags assigned, not merged with |=
get_company_by_name_assigning_flags(db, company_name, set_supplier, set_manufacturer) ==
    LET by_contains == First({pk \in 1..Len(db.companies) :
                                 name__contains(db.companies[pk].name, company_name)})
        company == IF by_contains = 0
                   THEN First({pk \in 1..Len(db.companies) :
                                  name__iexact(db.companies[pk].name, company_name)})
                   ELSE by_contains
    IN  IF company = 0
        THEN [db |-> [db EXCEPT !.companies =
                         Append(@, [name |-> company_name,
                                    is_supplier |-> set_supplier,
                                    is_manufacturer |-> set_manufacturer])],
              pk |-> Len(db.companies) + 1, created |-> TRUE]
        ELSE [db |-> [db EXCEPT
                        !.companies[company].is_supplier = set_supplier,
                        !.companies[company].is_manufacturer = set_manufacturer],
              pk |-> company, created |-> FALSE]

\* created: whether the company is a new one
get_company_by_name(db, company_name, set_supplier, set_manufacturer) ==
    LET by_contains == First({pk \in 1..Len(db.companies) :
                                 name__contains(db.companies[pk].name, company_name)})
        company == IF by_contains = 0
                   THEN First({pk \in 1..Len(db.companies) :
                                  name__iexact(db.companies[pk].name, company_name)})
                   ELSE by_contains
    IN  IF company = 0
        THEN [db |-> [db EXCEPT !.companies =
                         Append(@, [name |-> company_name,
                                    is_supplier |-> set_supplier,
                                    is_manufacturer |-> set_manufacturer])],
              pk |-> Len(db.companies) + 1, created |-> TRUE]
        ELSE [db |-> [db EXCEPT
                        !.companies[company].is_supplier = @ \/ set_supplier,
                        !.companies[company].is_manufacturer = @ \/ set_manufacturer],
              pk |-> company, created |-> FALSE]

-----------------------------------------------------------------------------
(* PartFactory: parts, manufacturer parts, supplier parts *)

\* PartFactory.__init__'s default for default_category
FallbackCategory == "Fallback Category"

\* f"Unbekanntes Teil (EAN:{ean})"
EmptyPartName(ean) == <<"Unbekanntes Teil (EAN:">> \o ean \o <<")">>

\* the part put into the constructor's "Fallback Category", the category given
\* left aside
create_empty_part_from_ean_in_fallback_category(db, ean, default_category) ==
    LET c == get_category_by_name(db, FallbackCategory, "")
        part == assign_barcode([name |-> EmptyPartName(ean),
                                category |-> c.pk,
                                keywords |-> ean,
                                units |-> <<>>,
                                barcode_hash |-> <<>>,
                                barcode_data |-> <<>>,
                                image |-> <<>>],
                               hash_barcode(ean), ean)
    IN  [db |-> [c.db EXCEPT !.parts = Append(@, part)],
         pk |-> Len(c.db.parts) + 1]

create_empty_part_from_ean(db, ean, default_category) ==
    LET c == get_category_by_name(db, default_category, "")
        part == assign_barcode([name |-> EmptyPartName(ean),
                                category |-> c.pk,
                                keywords |-> ean,
                                units |-> <<>>,
                                barcode_hash |-> <<>>,
                                barcode_data |-> <<>>,
                                image |-> <<>>],
                               hash_barcode(ean), ean)
    IN  [db |-> [c.db EXCEPT !.parts = Append(@, part)],
         pk |-> Len(c.db.parts) + 1]

\* ",".join(filter(None, [matchcode.strip(), ean]))
JoinKeywords(matchcode, ean) ==
    LET m == Strip(matchcode)
    IN  IF m = <<>> THEN ean
        ELSE IF ean = <<>> THEN m
        ELSE m \o <<",">> \o ean

create_part_from_datanorm_item(db, di, default_category) ==
    LET c == IF di.product_group_name = "" /\ di.main_product_group_name = ""
             THEN get_category_by_name(db, default_category, "")
             ELSE IF di.product_group_name = ""
             THEN get_category_by_name(db, di.main_product_group_name, "")
             ELSE get_category_by_name(db, di.product_group_name,
                                       di.main_product_group_name)
        part == assign_barcode([name |-> di.item_name,
                                category |-> c.pk,
                                keywords |-> JoinKeywords(di.matchcode, di.ean),
                                units |-> format_si_units(di.unit_of_measure),
                                barcode_hash |-> <<>>,
                                barcode_data |-> <<>>,
                                image |-> <<>>],
                               hash_barcode(di.ean), di.ean)
    IN  [db |-> [c.db EXCEPT !.parts = Append(@, part)],
         pk |-> Len(c.db.parts) + 1]

\* pk 0: no manufacturer part (the item's manufacturer_name is None)
create_manufacturer_part_from_datanorm_item(db, di, part) ==
    IF di.manufacturer_name # None
    THEN LET m == get_company_by_name(db, di.manufacturer_name, FALSE, TRUE)
         IN  [db |-> [m.db EXCEPT !.manufacturer_parts =
                         Append(@, [part |-> part,
                                    manufacturer |-> m.pk,
                                    MPN |-> di.alt_article_id])],
              pk |-> Len(m.db.manufacturer_parts) + 1]
    ELSE [db |-> db, pk |-> 0]

\* supplier_websites.get_supplier_website: the known supplier whose name
\* fragment the supplier's name holds, None for any other supplier
get_supplier_website(supplier) ==
    LET u == Upper(supplier)
    IN  IF Contains(u, <<"W", "U", "E", "R", "T", "H">>) THEN <<"WuerthWebsite">>
        ELSE IF Contains(u, <<"Z", "A", "N", "D", "E", "R">>) THEN <<"ZanderWebsite">>
        ELSE IF Contains(u, <<"B", "U", "E", "R", "K", "L", "E">>) THEN <<"BuerkleWebsite">>
        ELSE IF Contains(u, <<"S", "O", "N", "E", "P", "A", "R">>) THEN <<"SoneparWebsite">>
        ELSE None

\* The answer of a supplier's server to the requests of one call is response:
\* status "ConnectionError" where requests raises, else the status code; body,
\* for status "200", tells what the response holds: "complete" all that the
\* web site class reads, "no_fields" a product without those fields, "null" no
\* product, "no_data" JSON without the keys, "not_json" no JSON.

\* fetch_part_parameters: [parameters, raised]; parameters None, or the body
\* that gave them
fetch_part_parameters(website, response) ==
    IF website \in {<<"WuerthWebsite">>, <<"SoneparWebsite">>}
    THEN [parameters |-> None, raised |-> "None"]
    ELSE IF response.status = "ConnectionError"
    THEN [parameters |-> None, raised |-> "ConnectionError"]
    ELSE IF response.status # "200"
    THEN [parameters |-> None, raised |-> "None"]
    ELSE IF response.body = "not_json"
    THEN [parameters |-> None, raised |-> "JSONDecodeError"]
    ELSE IF response.body = "no_data"
    THEN [parameters |-> None, raised |-> "KeyError"]
    ELSE IF response.body = "null"
    THEN [parameters |-> None, raised |-> "None"]
    ELSE [parameters |-> <<response.body>>, raised |-> "None"]

\* SupplierWebsite.__init__(sku), sku not None: the object, and what the
\* constructor raised
SupplierWebsite(website, sku, response) ==
    LET f == fetch_part_parameters(website, response)
    IN  [website |-> website, sku |-> sku, parameters |-> f.parameters,
         raised |-> f.raised]

\* str.replace(" ", "%20")
EscapeBlanks(s) == [i \in 1..Len(s) |-> IF s[i] = " " THEN "%20" ELSE s[i]]

\* get_part_url() of a web site object
get_part_url(w) ==
    IF w.website = <<"BuerkleWebsite">>
    THEN <<"https://alexander-buerkle.com/de-de/produkt/">> \o w.sku \o <<"/">>
    ELSE IF w.website = <<"SoneparWebsite">>
    THEN <<"https://www.sonepar.de/dp/">> \o w.sku
    ELSE IF w.website = <<"WuerthWebsite">>
    THEN <<"https://www.wuerth.de/web/media/system/search_redirector.php?VisibleSearchTerm=">>
         \o EscapeBlanks(Strip(IF Len(w.sku) > 5 THEN SubSeq(w.sku, 1, Len(w.sku) - 5)
                               ELSE <<>>))
    ELSE <<"https://zander.online/artikel/">> \o w.sku

\* get_part_img_url() of a web site object: [url, raised]
get_part_img_url(w, response) ==
    IF w.website = <<"SoneparWebsite">>
    THEN [url |-> <<>>, raised |-> "None"]
    ELSE IF w.website = <<"WuerthWebsite">>
    THEN IF response.status = "ConnectionError"
         THEN [url |-> <<>>, raised |-> "ConnectionError"]
         ELSE IF response.status = "200" /\ response.body = "complete"
         THEN [url |-> <<"https://media.wuerth.com/">> \o w.sku \o <<".jpg">>,
               raised |-> "None"]
         ELSE [url |-> <<>>, raised |-> "None"]
    ELSE LET f == IF w.parameters = None
                  THEN fetch_part_parameters(w.website, response)
                  ELSE [parameters |-> w.parameters, raised |-> "None"]
         IN  IF f.raised # "None" THEN [url |-> <<>>, raised |-> f.raised]
             ELSE IF f.parameters = None THEN [url |-> <<>>, raised |-> "TypeError"]
             ELSE IF f.parameters # <<"complete">>
             THEN [url |-> <<>>, raised |-> "KeyError"]
             ELSE [url |-> <<"https://media/">> \o w.sku \o <<".jpg">>,
                   raised |-> "None"]

\* fetch_and_save_image_to_part: [image, img_url, raised], image the image
\* saved to the part, <<>> if none, img_url what get_part_img_url returned;
\* image_response is the status of the download
fetch_and_save_image_to_part(w, response, image_response) ==
    LET img == get_part_img_url(w, response)
    IN  [image |-> IF img.url # <<>> /\ image_response = "200" THEN img.url ELSE <<>>,
         img_url |-> img.url,
         raised |-> IF img.raised = "None" /\ img.url # <<>>
                       /\ image_response = "ConnectionError"
                    THEN "ConnectionError"
                    ELSE img.raised]

\* the answer of a server that gives all that is asked for
Complete == [status |-> "200", body |-> "complete"]

\* no web site, or no call of it
NoEnrichment(raised) == [link |-> <<>>, image |-> <<>>, img_url |-> <<>>, raised |-> raised]

\* link = supplier_website.get_part_url() and, if not part.image,
\* fetch_and_save_image_to_part, for the web site object w
EnrichFromWebsite(w, has_image, response, image_response) ==
    IF w.raised # "None" THEN NoEnrichment(w.raised)
    ELSE IF has_image THEN [NoEnrichment("None") EXCEPT !.link = get_part_url(w)]
    ELSE LET f == fetch_and_save_image_to_part(w, response, image_response)
         IN  [link |-> get_part_url(w), image |-> f.image, img_url |-> f.img_url,
              raised |-> f.raised]

\* supplier_website = get_supplier_website(supplier_name, sku) and what
\* create_supplier_part_from_datanorm_item does with it: [link, image,
\* img_url, raised]
Enrichment(supplier_website, sku, has_image, response, image_response) ==
    IF supplier_website = None THEN NoEnrichment("None")
    ELSE EnrichFromWebsite(SupplierWebsite(supplier_website, sku, response),
                           has_image, response, image_response)

\* the supplier part of company s.pk saved, with the link and the image of
\* the enrichment e; an exception leaves the company saved and no supplier
\* part (pk 0). The price break is add_price_break(di.price_unit,
\* Money(di.price_wholesale, di.currency)).
SaveSupplierPart(s, di, part, e) ==
    IF e.raised # "None"
    THEN [db |-> s.db, pk |-> 0, raised |-> e.raised, img_url |-> <<>>]
    ELSE [db |-> [s.db EXCEPT
                    !.parts[part].image = IF e.image # <<>> THEN e.image ELSE @,
                    !.supplier_parts =
                        Append(@, [part |-> part,
                                   supplier |-> s.pk,
                                   SKU |-> di.article_id,
                                   link |-> e.link,
                                   manufacturer_part |-> 0,
                                   price_breaks |-> <<[quantity |-> di.price_unit,
                                                       price |-> di.price_wholesale,
                                                       currency |-> di.currency]>>])],
          pk |-> Len(s.db.supplier_parts) + 1,
          raised |-> "None",
          img_url |-> e.img_url]

\* create_supplier_part_from_datanorm_item with the answers of the supplier's
\* server and of the image download: [db, pk, raised, img_url]; img_url is
\* what get_part_img_url gave, <<>> also where it was not called or raised
create_supplier_part_from_datanorm_item_online(db, di, part, response, image_response) ==
    CHOOSE r \in {SaveSupplierPart(s, di, part,
                                   Enrichment(get_supplier_website(di.tag),
                                              di.article_id,
                                              s.db.parts[part].image # <<>>,
                                              response, image_response)) :
                      s \in {get_company_by_name(db, di.tag, TRUE, FALSE)}} : TRUE

\* create_supplier_part_from_datanorm_item where the supplier has no web site,
\* or its server gives all that is asked for
create_supplier_part_from_datanorm_item(db, di, part) ==
    CHOOSE r \in {[db |-> o.db, pk |-> o.pk] :
                      o \in {create_supplier_part_from_datanorm_item_online(
                                 db, di, part, Complete, "200")}} : TRUE

-----------------------------------------------------------------------------
(* DatanormBarcodePlugin: the graph build and the scan *)

get_setting(key) == settings[key]

\* keywords=keyword in place of keywords__contains=keyword
search_for_first_part_with_keywords_equal(db, keyword) ==
    First({pk \in 1..Len(db.parts) : db.parts[pk].keywords = keyword})

search_for_first_part_with_keyword(db, keyword) ==
    First({pk \in 1..Len(db.parts) : Contains(db.parts[pk].keywords, keyword)})

\* keywords=name in place of name=name
search_for_part_with_name_in_keywords(db, name) ==
    First({pk \in 1..Len(db.parts) : db.parts[pk].keywords = name})

search_for_part_with_name(db, name) ==
    First({pk \in 1..Len(db.parts) : db.parts[pk].name = name})

\* the product group name overwritten, the main product group name left
overwrite_category_keeping_parent(datanorm_items, new_category) ==
    [i \in 1..Len(datanorm_items) |->
        [datanorm_items[i] EXCEPT !.product_group_name = new_category]]

overwrite_category(datanorm_items, new_category) ==
    [i \in 1..Len(datanorm_items) |->
        [datanorm_items[i] EXCEPT !.product_group_name = new_category,
                                  !.main_product_group_name = ""]]

\* the loop over the items: st = [db, m_part, s_parts]
RECURSIVE CreateManufacturerAndSupplierParts(_, _, _)
CreateManufacturerAndSupplierParts(st, datanorm_items, part) ==
    IF datanorm_items = <<>> THEN st
    ELSE LET di == Head(datanorm_items)
             m == IF st.m_part = 0
                  THEN create_manufacturer_part_from_datanorm_item(st.db, di, part)
                  ELSE [db |-> st.db, pk |-> st.m_part]
             s == create_supplier_part_from_datanorm_item(m.db, di, part)
         IN  CreateManufacturerAndSupplierParts(
                 [db |-> s.db, m_part |-> m.pk, s_parts |-> Append(st.s_parts, s.pk)],
                 Tail(datanorm_items), part)

\* the supplier parts left without the manufacturer part
LeaveSupplierParts(db, s_parts, m_part) == db

\* s_part.manufacturer_part = m_part; s_part.save() for every s_part
LinkSupplierParts(db, s_parts, m_part) ==
    [db EXCEPT !.supplier_parts =
        [k \in 1..Len(@) |->
            IF \E j \in 1..Len(s_parts) : s_parts[j] = k
            THEN [@[k] EXCEPT !.manufacturer_part = m_part]
            ELSE @[k]]]

\* datanorm_items is not empty
create_all_parts_from_datanorm_items(db, datanorm_items) ==
    LET found == search_for_part_with_name(db, datanorm_items[1].item_name)
        p == IF found = 0
             THEN create_part_from_datanorm_item(db, datanorm_items[1], FallbackCategory)
             ELSE [db |-> [db EXCEPT !.parts[found].keywords =
                              @ \o <<",">> \o datanorm_items[1].ean],
                   pk |-> found]
        st == CreateManufacturerAndSupplierParts(
                  [db |-> p.db, m_part |-> 0, s_parts |-> <<>>], datanorm_items, p.pk)
    IN  [db |-> IF st.m_part # 0
                THEN LinkSupplierParts(st.db, st.s_parts, st.m_part)
                ELSE st.db,
         pk |-> p.pk]

\* found: the valid items search_ean_in_datanorm_files finds for the EAN
create_all_parts(db, ean, found) ==
    LET overwrite == get_setting("DEFAULT_CATEGORY")
        use_overwrite_category == get_setting("USE_DEFAULT_CATEGORY")
        datanorm_items == IF use_overwrite_category = "True"
                          THEN overwrite_category(found, overwrite)
                          ELSE found
    IN  IF Len(datanorm_items) > 0
        THEN create_all_parts_from_datanorm_items(db, datanorm_items)
        ELSE create_empty_part_from_ean(db, ean, overwrite)

\* The outcome of scan: db the tables it leaves, pk the part of the response (0
\* for the response None), created whether it took the branch that creates
\* parts, and raised the exception the call ends in ("None" if it returns).
scan(db, barcode_data, found) ==
    LET valid == is_valid_ean_code(barcode_data)
    IN  IF valid \notin {"True", "False"}
        THEN [db |-> db, pk |-> 0, created |-> FALSE, raised |-> valid]
        ELSE IF valid = "False"
        THEN [db |-> db, pk |-> 0, created |-> FALSE, raised |-> "None"]
        ELSE LET part == search_for_first_part_with_keyword(db, barcode_data)
                 reassign_barcode == get_setting("AUTOMATIC_BARCODE_ASSIGNMENT")
             IN  IF part = 0
                 THEN LET c == create_all_parts(db, barcode_data, found)
                      IN  [db |-> c.db, pk |-> c.pk, created |-> TRUE, raised |-> "None"]
                 ELSE IF reassign_barcode = "True" /\ db.parts[part].barcode_hash = <<>>
                 THEN [db |-> [db EXCEPT !.parts[part] =
                                  assign_barcode(@, hash_barcode(barcode_data),
                                                 barcode_data)],
                       pk |-> part, created |-> FALSE, raised |-> "None"]
                 ELSE [db |-> db, pk |-> part, created |-> FALSE, raised |-> "None"]

\* The graph build and the scan with the answers of the suppliers' servers
\* during the call: response to the requests of the web site classes,
\* image_response to the downloads of images. No statement of the plugin
\* catches an exception and none opens a transaction: what was saved before an
\* exception stays saved, and the exception ends the call.

\* the loop over the items: st = [db, m_part, s_parts, raised]
RECURSIVE CreateManufacturerAndSupplierPartsOnline(_, _, _, _, _)
CreateManufacturerAndSupplierPartsOnline(st, datanorm_items, part, response, image_response) ==
    IF datanorm_items = <<>> \/ st.raised # "None" THEN st
    ELSE CreateManufacturerAndSupplierPartsOnline(
             CHOOSE after \in UNION {
                 {[db |-> s.db,
                   m_part |-> m.pk,
                   s_parts |-> IF s.raised = "None" THEN Append(st.s_parts, s.pk)
                               ELSE st.s_parts,
                   raised |-> s.raised] :
                  s \in {create_supplier_part_from_datanorm_item_online(
                             m.db, Head(datanorm_items), part, response,
                             image_response)}} :
                 m \in {IF st.m_part = 0
                        THEN create_manufacturer_part_from_datanorm_item(
                                 st.db, Head(datanorm_items), part)
                        ELSE [db |-> st.db, pk |-> st.m_part]}} : TRUE,
             Tail(datanorm_items), part, response, image_response)

\* the part of the name of the first item, with the item's EAN added to its
\* keywords, or the part created from the first item: [db, pk]
PartOfFirstItem(db, di, found) ==
    IF found = 0
    THEN create_part_from_datanorm_item(db, di, FallbackCategory)
    ELSE [db |-> [db EXCEPT !.parts[found].keywords = @ \o <<",">> \o di.ean],
          pk |-> found]

\* the supplier parts linked to the manufacturer part, if the loop has ended
\* and has made one: [db, pk, raised], pk 0 where the loop raised
AfterLoop(st, part) ==
    [db |-> IF st.raised = "None" /\ st.m_part # 0
            THEN LinkSupplierParts(st.db, st.s_parts, st.m_part)
            ELSE st.db,
     pk |-> IF st.raised = "None" THEN part ELSE 0,
     raised |-> st.raised]

\* datanorm_items is not empty
create_all_parts_from_datanorm_items_online(db, datanorm_items, response, image_response) ==
    CHOOSE r \in UNION {
        {AfterLoop(st, p.pk) :
         st \in {CreateManufacturerAndSupplierPartsOnline(
                     [db |-> p.db, m_part |-> 0, s_parts |-> <<>>, raised |-> "None"],
                     datanorm_items, p.pk, response, image_response)}} :
        p \in {PartOfFirstItem(db, datanorm_items[1],
                               search_for_part_with_name(db, datanorm_items[1].item_name))}} :
        TRUE

create_all_parts_online(db, ean, found, response, image_response) ==
    IF Len(found) > 0
    THEN create_all_parts_from_datanorm_items_online(
             db,
             IF get_setting("USE_DEFAULT_CATEGORY") = "True"
             THEN overwrite_category(found, get_setting("DEFAULT_CATEGORY"))
             ELSE found,
             response, image_response)
    ELSE CHOOSE r \in {[db |-> e.db, pk |-> e.pk, raised |-> "None"] :
                          e \in {create_empty_part_from_ean(
                                     db, ean, get_setting("DEFAULT_CATEGORY"))}} : TRUE

\* [db, pk, created, raised]
scan_online(db, barcode_data, found, response, image_response) ==
    IF is_valid_ean_code(barcode_data) = "True"
       /\ search_for_first_part_with_keyword(db, barcode_data) = 0
    THEN CHOOSE r \in {[db |-> c.db, pk |-> c.pk, created |-> TRUE, raised |-> c.raised] :
                          c \in {create_all_parts_online(db, barcode_data, found, response,
                                                         image_response)}} : TRUE
    ELSE scan(db, barcode_data, found)

-----------------------------------------------------------------------------
(* The inputs *)

\* the codes of the tests
GOOD_EAN_13_1 == <<"3", "2", "5", "0", "6", "1", "4", "3", "1", "5", "3", "3", "6">>
GOOD_EAN_13_2 == <<"4", "0", "1", "2", "1", "9", "5", "5", "8", "3", "9", "4", "3">>
GOOD_EAN_8 == <<"9", "0", "3", "1", "1", "0", "1", "7">>
BAD_EAN1 == <<"1", "2", "3", "2", "3">>
BAD_EAN2 == <<"1", "2", "3", "4", "5", "6", "7", "8", "9", "0", "1", "2", "3">>
BAD_EAN3 == <<"A", "B", "C", "-", "a", "b", "c", "-", "1", "M">>
\* a valid EAN-13 that holds GOOD_EAN_8
LONG_EAN_13 == <<"4", "0", "0", "0", "9", "0", "3", "1", "1", "0", "1", "7", "8">>

\* company names: equal but for case, one inside the other, unrelated
CompanyNames == {<<"H", "a", "g">>, <<"H", "A", "G">>,
                 <<"H", "a", "g", "e", "r">>, <<"O", "b", "o">>}

\* DatanormItem: what the parser read for one supplier's files. The fields the
\* build reads; the matchcode, the unit, the article ids and the prices are
\* given by the item's name and tag.
\* groups: <<product_group_name, main_product_group_name>>
DatanormItem(ean, tag, item_name, groups, manufacturer_name) ==
    [tag |-> tag,
     item_name |-> item_name,
     ean |-> ean,
     matchcode |-> IF item_name = <<"LS-Schalter">> THEN <<"M", "C", "S", " ">> ELSE <<>>,
     unit_of_measure |-> IF item_name = <<"LS-Schalter">> THEN <<"S", "t", "k">>
                         ELSE <<"M", "t", "r">>,
     product_group_name |-> groups[1],
     main_product_group_name |-> groups[2],
     manufacturer_name |-> manufacturer_name,
     alt_article_id |-> <<"MPN">>,
     article_id |-> <<"SKU-">> \o tag,
     price_unit |-> 1,
     price_wholesale |-> 90,
     price |-> 100,
     currency |-> "EUR"]

\* the lists of at most n items over a set of items
ItemLists(items, n) == UNION {[1..k -> items] : k \in 0..n}

-----------------------------------------------------------------------------
(* The bounds of the model *)

\* the items found for one EAN, or given to one build
MaxItems == 2
\* the supplier parts a specification of direct builds lets the table hold
MaxSupplierParts == 2
\* the companies a specification of direct company lookups lets the table hold
MaxCompanies == 2
\* the categories a specification of direct category lookups lets the table hold
MaxCategories == 3

-----------------------------------------------------------------------------
(* The state machine *)

NoCall == [op |-> "none", arg |-> <<>>, ret |-> <<>>]

\* a call about to be made: a static method and its argument
Calling(method, argument) == [op |-> "calling", arg |-> <<method, argument>>, ret |-> <<>>]

SettingsValues ==
    [DEFAULT_CATEGORY : {"Lager", "Elektro"},
     USE_DEFAULT_CATEGORY : {"True", "False"},
     AUTOMATIC_BARCODE_ASSIGNMENT : {"True", "False"}]

\* backends: the databases, each [like_ci, first_lowest]
InitWith(settings_values, backends, calls) ==
    /\ parts = <<>>
    /\ categories = <<>>
    /\ companies = <<>>
    /\ manufacturer_parts = <<>>
    /\ supplier_parts = <<>>
    /\ settings \in settings_values
    /\ \E backend \in backends :
          /\ db_like_ci = backend.like_ci
          /\ db_first_lowest = backend.first_lowest
    /\ last \in calls
    /\ prev = NoCall

\* what is kept of the call before the last: not the items it was given
Summary(call) ==
    IF call.op \in {"scan", "create_all_parts_from_datanorm_items",
                   "create_supplier_part_from_datanorm_item"} /\ call.arg # <<>>
    THEN [call EXCEPT !.arg = IF call.op = "scan" THEN <<call.arg[1]>> ELSE <<>>]
    ELSE call

\* the tables become those of db, and the call is recorded
Becomes(db, call) ==
    /\ parts' = db.parts
    /\ categories' = db.categories
    /\ companies' = db.companies
    /\ manufacturer_parts' = db.manufacturer_parts
    /\ supplier_parts' = db.supplier_parts
    /\ prev' = Summary(last)
    /\ last' = call
    /\ UNCHANGED <<settings, db_like_ci, db_first_lowest>>

\* the outcomes of a call: the one value it returns
Outcome(value) == {value}

\* whether scan will look the code up in the DATANORM files
SearchesDatanormFiles(barcode_data) ==
    /\ is_valid_ean_code(barcode_data) = "True"
    /\ search_for_first_part_with_keyword(DB, barcode_data) = 0

\* found: what search_ean_in_datanorm_files finds in the files attached at the
\* time of the scan, <<>> for a scan that does not get to read them
Scan(barcode_data, found) ==
    /\ found # <<>> => SearchesDatanormFiles(barcode_data)
    /\ \E r \in Outcome(scan(DB, barcode_data, found)) :
          Becomes(r.db, [op |-> "scan", arg |-> <<barcode_data, found>>,
                         ret |-> [pk |-> r.pk, created |-> r.created,
                                  raised |-> r.raised]])

CreateAllPartsFromDatanormItems(datanorm_items) ==
    /\ datanorm_items # <<>>
    /\ Len(supplier_parts) + Len(datanorm_items) <= MaxSupplierParts
    /\ \E r \in Outcome(create_all_parts_from_datanorm_items(DB, datanorm_items)) :
          Becomes(r.db, [op |-> "create_all_parts_from_datanorm_items",
                          arg |-> <<datanorm_items>>, ret |-> r.pk])

GetCompanyByName(company_name, set_supplier, set_manufacturer) ==
    \E r \in Outcome(get_company_by_name(DB, company_name, set_supplier,
                                        set_manufacturer)) :
        /\ Len(r.db.companies) <= MaxCompanies
        /\ Becomes(r.db, [op |-> "get_company_by_name",
                          arg |-> <<company_name, set_supplier, set_manufacturer>>,
                          ret |-> [pk |-> r.pk, created |-> r.created]])

GetCategoryByName(category_name, parent_name) ==
    \E r \in Outcome(get_category_by_name(DB, category_name, parent_name)) :
        /\ Len(r.db.categories) <= MaxCategories
        /\ Becomes(r.db, [op |-> "get_category_by_name",
                          arg |-> <<category_name, parent_name>>, ret |-> r.pk])

\* scan with the answers of the suppliers' servers during the call; found is
\* what search_ean_in_datanorm_files finds in the files attached, <<>> for a
\* scan that does not get to read them
ScanOnline(barcode_data, found, response, image_response) ==
    \E r \in Outcome(scan_online(DB, barcode_data, found, response, image_response)) :
        Becomes(r.db, [op |-> "scan",
                       arg |-> <<barcode_data, found>>,
                       ret |-> [pk |-> r.pk, created |-> r.created,
                                raised |-> r.raised]])

\* a static method that does not touch the tables returns
Returns(method, value) ==
    /\ last.op = "calling"
    /\ last.arg[1] = method
    /\ last' = [op |-> method, arg |-> <<last.arg[2]>>, ret |-> value]
    /\ UNCHANGED <<store, settings, db_like_ci, db_first_lowest, prev>>

IsValidEanCode ==
    /\ last.op = "calling"
    /\ Returns("is_valid_ean_code", is_valid_ean_code(last.arg[2]))

FormatSiUnits ==
    /\ last.op = "calling"
    /\ Returns("format_si_units", format_si_units(last.arg[2]))

\* Part.unassign_barcode, as the tests call it between two scans
UnassignBarcode(pk) ==
    /\ pk \in 1..Len(parts)
    /\ parts[pk].barcode_hash # <<>>
    /\ Becomes([DB EXCEPT !.parts[pk] = assign_barcode(@, <<>>, <<>>)],
               [op |-> "unassign_barcode", arg |-> <<pk>>, ret |-> <<>>])

-----------------------------------------------------------------------------
(* The specifications *)

\* databases: LIKE with or without case, first() by rising or falling pk
Backends == [like_ci : BOOLEAN, first_lowest : BOOLEAN]

CaseSensitive == {b \in Backends : ~b.like_ci}

PlainBackend == {b \in Backends : ~b.like_ci /\ b.first_lowest}

DefaultSettings ==
    [DEFAULT_CATEGORY |-> "Lager", USE_DEFAULT_CATEGORY |-> "False",
     AUTOMATIC_BARCODE_ASSIGNMENT |-> "False"]

LS == <<"LS-Schalter">>
NYM == <<"NYM-J 3x1,5">>
Hag == <<"H", "a", "g">>
HAG == <<"H", "A", "G">>
Hager == <<"H", "a", "g", "e", "r">>
Obo == <<"O", "b", "o">>

\* Spec: scans, and barcodes taken off parts between them
ScanCodes == {GOOD_EAN_8, LONG_EAN_13, BAD_EAN3}

ScanItems(ean) ==
    {DatanormItem(ean, Obo, LS, <<"Schalter", "Elektro">>, Hager),
     DatanormItem(ean, Hag, NYM, <<"Schalter", "Elektro">>, None)}

Init ==
    InitWith({s \in SettingsValues : s.USE_DEFAULT_CATEGORY = "False"
                                     /\ s.DEFAULT_CATEGORY = "Lager"},
             CaseSensitive, {NoCall})

Next ==
    \/ \E barcode_data \in ScanCodes :
         \E found \in ItemLists(ScanItems(barcode_data), MaxItems) :
            Scan(barcode_data, found)
    \/ \E pk \in 1..Len(parts) : UnassignBarcode(pk)

Spec == Init /\ [][Next]_vars

\* SpecMerge: one graph build on the empty tables
MergeItems ==
    {DatanormItem(GOOD_EAN_13_1, tag, item_name, <<"Schalter", "Elektro">>, manufacturer_name) :
        tag \in {Hag, Hager, Obo}, item_name \in {LS, NYM},
        manufacturer_name \in {None, Hag, HAG}}

InitMerge == InitWith({DefaultSettings}, Backends, {NoCall})

NextMerge ==
    /\ DB = EmptyDB
    /\ \E datanorm_items \in ItemLists(MergeItems, MaxItems) :
          CreateAllPartsFromDatanormItems(datanorm_items)

SpecMerge == InitMerge /\ [][NextMerge]_vars

\* SpecBuild: graph builds and company lookups
BuildItems ==
    {DatanormItem(GOOD_EAN_8, Hag, LS, <<"Schalter", "Elektro">>, None),
     DatanormItem(GOOD_EAN_13_1, Obo, LS, <<"Schalter", "Elektro">>, HAG)}

InitBuild == InitWith({DefaultSettings}, CaseSensitive, {NoCall})

NextBuild ==
    \/ \E datanorm_items \in ItemLists(BuildItems, MaxItems) :
         CreateAllPartsFromDatanormItems(datanorm_items)
    \/ \E company_name \in {Hag, Hager}, set_supplier, set_manufacturer \in BOOLEAN :
         GetCompanyByName(company_name, set_supplier, set_manufacturer)

SpecBuild == InitBuild /\ [][NextBuild]_vars

\* SpecCompany: company lookups
NextCompany ==
    \E company_name \in CompanyNames, set_supplier \in BOOLEAN :
        GetCompanyByName(company_name, set_supplier, ~set_supplier)

SpecCompany == InitMerge /\ [][NextCompany]_vars

\* SpecCategory: scans of items of every group, and category lookups
CategoryNames == {"Schalter", "Elektro"}

CategoryItems(ean) ==
    {DatanormItem(ean, Obo, LS, <<product_group_name, main_product_group_name>>, None) :
        product_group_name \in {"", "Schalter"},
        main_product_group_name \in {"", "Elektro"}}

InitCategory ==
    InitWith({s \in SettingsValues : s.AUTOMATIC_BARCODE_ASSIGNMENT = "False"},
             CaseSensitive, {NoCall})

NextCategory ==
    \/ \E found \in ItemLists(CategoryItems(GOOD_EAN_8), 1) :
         Scan(GOOD_EAN_8, found)
    \/ \E category_name \in CategoryNames, parent_name \in CategoryNames \cup {""} :
         GetCategoryByName(category_name, parent_name)

SpecCategory == InitCategory /\ [][NextCategory]_vars

\* SpecEan: the validator on codes
EanChars == {Digits[i] : i \in 1..Len(Digits)} \cup {"A", "M", "-"}

ShortCodeChars == {"1", "7", "A"}

MaxShortCode == 8

EanSeeds == {GOOD_EAN_13_1, GOOD_EAN_13_2, GOOD_EAN_8, BAD_EAN1, BAD_EAN2, BAD_EAN3,
             LONG_EAN_13}

\* the seeds, each with one character changed, cut short, or one longer, and
\* every short code over three characters
EanInputs ==
    UNION {  {[s EXCEPT ![i] = c] : i \in 1..Len(s), c \in EanChars}
             \cup {SubSeq(s, 1, k) : k \in 0..Len(s)}
             \cup {s \o <<c>> : c \in EanChars}
             \cup {<<c>> \o s : c \in EanChars} : s \in EanSeeds}
    \cup UNION {[1..k -> ShortCodeChars] : k \in 0..MaxShortCode}

InitEan ==
    InitWith({DefaultSettings}, PlainBackend,
             {Calling("is_valid_ean_code", code) : code \in EanInputs})

SpecEan == InitEan /\ [][IsValidEanCode]_vars

\* SpecUnits: the unit table on unit names
UnitChars == {"S", "T", "C", "K", "M", "R", "L", "F", "V", "E", "G"}

MaxUnitLen == 2

UnitSeeds == {<<"S", "T", "C", "K">>, <<"S", "T", "K">>, <<"M", "T", "R">>, <<"M">>,
              <<"L", "F", "M">>, <<"V", "E">>, <<"K", "G">>, <<"P", "C", "S">>,
              <<"K", "G", "S">>, <<"M", "M">>}

\* every unit name of at most MaxUnitLen letters of the table, upper or lower
\* case, and the seeds in every mix of upper and lower case
UnitInputs ==
    UNION {[1..k -> UnitChars \cup {LowerChar(c) : c \in UnitChars}] : k \in 0..MaxUnitLen}
    \cup UNION {{[i \in 1..Len(s) |-> IF i \in low THEN LowerChar(s[i]) ELSE s[i]] :
                    low \in SUBSET (1..Len(s))} : s \in UnitSeeds}

InitUnits ==
    InitWith({DefaultSettings}, PlainBackend,
             {Calling("format_si_units", unit) : unit \in UnitInputs})

SpecUnits == InitUnits /\ [][FormatSiUnits]_vars

\* SpecReject: scans of codes of digits, most of which the validator rejects
\* the codes of digits of the tests, and GOOD_EAN_8 cut short or with another
\* last digit
RejectCodes ==
    {GOOD_EAN_8, BAD_EAN1, BAD_EAN2}
    \cup {SubSeq(GOOD_EAN_8, 1, k) : k \in {1, 7}}
    \cup {[GOOD_EAN_8 EXCEPT ![8] = Digits[i]] : i \in 1..Len(Digits)}

NextReject ==
    \E barcode_data \in RejectCodes :
        \E found \in ItemLists(ScanItems(barcode_data), 1) :
            Scan(barcode_data, found)

SpecReject == Init /\ [][NextReject]_vars

\* SpecManufacturer: graph builds from items with a manufacturer name, with an
\* empty one, and without one
ManufacturerItems ==
    {DatanormItem(GOOD_EAN_8, tag, LS, <<"Schalter", "Elektro">>, manufacturer_name) :
        tag \in {Obo, Hag}, manufacturer_name \in {None, <<>>, Hager}}

NextManufacturer ==
    \E datanorm_items \in ItemLists(ManufacturerItems, MaxItems) :
        CreateAllPartsFromDatanormItems(datanorm_items)

SpecManufacturer == InitBuild /\ [][NextManufacturer]_vars

\* SpecSupplier: graph builds from items of supplier tags one of which holds
\* another, and company lookups between them
SupplierItems ==
    {DatanormItem(GOOD_EAN_8, tag, LS, <<"Schalter", "Elektro">>, manufacturer_name) :
        tag \in {Hag, Hager, Obo}, manufacturer_name \in {None, HAG}}

NextSupplier ==
    \/ \E datanorm_items \in ItemLists(SupplierItems, MaxItems) :
         CreateAllPartsFromDatanormItems(datanorm_items)
    \/ \E company_name \in {Hager, HAG} :
         GetCompanyByName(company_name, FALSE, FALSE)

SpecSupplier == InitMerge /\ [][NextSupplier]_vars

\* SpecPrice: graph builds from items of several price units and wholesale
\* prices
\* di.price_unit: the number of pieces the prices of the item are for
PriceUnits == {1, 10, 100}

\* di.price_wholesale, in cents
WholesalePrices == {0, 90, 9000}

PriceItems ==
    {[DatanormItem(GOOD_EAN_8, Obo, LS, <<"Schalter", "Elektro">>, None)
         EXCEPT !.price_unit = price_unit, !.price_wholesale = price_wholesale] :
        price_unit \in PriceUnits, price_wholesale \in WholesalePrices}

NextPrice ==
    \E datanorm_items \in ItemLists(PriceItems, MaxItems) :
        CreateAllPartsFromDatanormItems(datanorm_items)

SpecPrice == InitBuild /\ [][NextPrice]_vars

\* SpecWebsite: the first supplier part for a placeholder part, from an item
\* of a supplier with a web site or of one without, whatever the servers answer
Zander == <<"Z", "a", "n", "d", "e", "r">>
Wuerth == <<"W", "u", "e", "r", "t", "h">>
Buerkle == <<"B", "u", "e", "r", "k", "l", "e">>
Sonepar == <<"S", "o", "n", "e", "p", "a", "r">>

Bodies == {"complete", "no_fields", "null", "no_data", "not_json"}

Responses ==
    {[status |-> status, body |-> "none"] : status \in {"ConnectionError", "404"}}
    \cup {[status |-> "200", body |-> body] : body \in Bodies}

ImageResponses == {"ConnectionError", "200", "404"}

\* the article id of test_supplier_websites for Würth: "005712 30  100"
WebsiteItems ==
    {[DatanormItem(GOOD_EAN_8, tag, LS, <<"Schalter", "Elektro">>, None)
         EXCEPT !.article_id = <<"0", "0", "5", "7", "1", "2", " ", "3", "0", " ", " ",
                                 "1", "0", "0">>] :
        tag \in {Zander, Wuerth, Buerkle, Sonepar, Obo}}

CreateSupplierPartFromDatanormItem(di, part, response, image_response) ==
    /\ part \in 1..Len(parts)
    /\ \E r \in Outcome(create_supplier_part_from_datanorm_item_online(
                            DB, di, part, response, image_response)) :
          Becomes(r.db, [op |-> "create_supplier_part_from_datanorm_item",
                         arg |-> <<di, response, image_response>>,
                         ret |-> [pk |-> r.pk, raised |-> r.raised,
                                  img_url |-> r.img_url]])

NextWebsite ==
    \/ /\ parts = <<>>
       /\ Scan(GOOD_EAN_8, <<>>)
    \/ /\ companies = <<>>
       /\ \E di \in WebsiteItems, response \in Responses,
             image_response \in ImageResponses :
            CreateSupplierPartFromDatanormItem(di, 1, response, image_response)

SpecWebsite == InitBuild /\ [][NextWebsite]_vars

\* SpecFault: scans against attached DATANORM files, with servers that fail
FaultCodes == {GOOD_EAN_8, GOOD_EAN_13_1, GOOD_EAN_13_2}

\* the files attached: two suppliers' items for GOOD_EAN_8 and for
\* GOOD_EAN_13_1, none for any other code
search_ean_in_datanorm_files(ean) ==
    IF ean = GOOD_EAN_8
    THEN <<DatanormItem(ean, Zander, LS, <<"Schalter", "Elektro">>, Hager),
           DatanormItem(ean, Obo, LS, <<"Schalter", "Elektro">>, None)>>
    ELSE IF ean = GOOD_EAN_13_1
    THEN <<DatanormItem(ean, Obo, NYM, <<"Schalter", "Elektro">>, None),
           DatanormItem(ean, Buerkle, NYM, <<"Schalter", "Elektro">>, None)>>
    ELSE <<>>

\* a server that answers, one that has no such page, one that is not reached
FaultResponses ==
    {Complete, [status |-> "404", body |-> "none"],
     [status |-> "ConnectionError", body |-> "none"]}

NextFault ==
    \E barcode_data \in FaultCodes, response \in FaultResponses,
       image_response \in ImageResponses :
        \E found \in {IF SearchesDatanormFiles(barcode_data)
                       THEN search_ean_in_datanorm_files(barcode_data)
                       ELSE <<>>} :
            ScanOnline(barcode_data, found, response, image_response)

SpecFault == InitBuild /\ [][NextFault]_vars

\* SpecLookup: category lookups, with and without a parent name, on a
\* database whose first() takes the matching row of lowest pk
LookupNames == {"Schalter", "Elektro", "Kabel"}

InitLookup == InitWith({DefaultSettings}, PlainBackend, {NoCall})

NextLookup ==
    \E category_name \in LookupNames, parent_name \in LookupNames \cup {""} :
        GetCategoryByName(category_name, parent_name)

SpecLookup == InitLookup /\ [][NextLookup]_vars

\* SpecAccumulate: scans of codes whose items share one item name; an item's
\* article ids are those of its code
AccumulateCodes == {GOOD_EAN_8, GOOD_EAN_13_1}

AccumulateItems(ean) ==
    {[DatanormItem(ean, tag, LS, <<"Schalter", "Elektro">>,
                   IF tag = Obo THEN Hager ELSE None)
         EXCEPT !.article_id = <<"SKU-">> \o tag \o <<"-">> \o ean,
                !.alt_article_id = <<"MPN-">> \o ean] :
        tag \in {Obo, Hag}}

\* the lists of at most n items, no two of one supplier's files
ItemListsOfDistinctTags(items, n) ==
    {found \in ItemLists(items, n) :
        \A i, j \in 1..Len(found) : i # j => found[i].tag # found[j].tag}

NextAccumulate ==
    \E barcode_data \in AccumulateCodes :
        \E found \in ItemListsOfDistinctTags(AccumulateItems(barcode_data), MaxItems) :
            Scan(barcode_data, found)

SpecAccumulate == InitBuild /\ [][NextAccumulate]_vars

-----------------------------------------------------------------------------
(* The properties *)

AllDigits(code) == \A i \in 1..Len(code) : IsDigit(code[i])

\* the GTIN check digit of a payload of digits: weights 3, 1, 3, ... from the
\* rightmost payload digit
GtinCheckDigit(payload) ==
    LET n == Len(payload)
        S == SumSeq([i \in 1..n |->
                 DigitValue(payload[n + 1 - i]) * (IF i % 2 = 1 THEN 3 ELSE 1)])
    IN  (10 - (S % 10)) % 10

SameIgnoringCase(a, b) == Lower(a) = Lower(b)

\* C1: for a string of exactly 8 or 13 digits is_valid_ean_code returns true
\* exactly if the last digit is the GTIN check digit of the digits before it,
\* and for a string of digits of any other length but 0 it returns false.
C1_ValidatorMatchesCheckDigit ==
    last.op = "is_valid_ean_code" =>
        LET code == last.arg[1]
        IN  /\ (AllDigits(code) /\ Len(code) \in {8, 13}) =>
                  /\ last.ret \in {"True", "False"}
                  /\ last.ret = "True" <=>
                         DigitValue(code[Len(code)]) = GtinCheckDigit(AllButLast(code))
            /\ (AllDigits(code) /\ Len(code) \notin {0, 8, 13}) => last.ret = "False"

\* C1: a valid EAN-13 has been found valid
C1_Witness ==
    /\ last.op = "is_valid_ean_code"
    /\ last.arg[1] = GOOD_EAN_13_1
    /\ last.ret = "True"

\* C2: for a string that is empty, of a length other than 8 and 13, or holds a
\* character that is no digit, is_valid_ean_code returns false; it ends in no
\* exception.
C2_ValidatorFailsClosed ==
    last.op = "is_valid_ean_code" =>
        LET code == last.arg[1]
        IN  (Len(code) \notin {8, 13} \/ ~AllDigits(code)) => last.ret = "False"

\* C2: the call for "ABC-abc-1M" has ended in a ValueError
C2_Witness ==
    /\ last.op = "is_valid_ean_code"
    /\ last.arg[1] = BAD_EAN3
    /\ last.ret = "ValueError"

IsScan(call) == call.op = "scan"

IsBuild(call) == call.op = "create_all_parts_from_datanorm_items"

\* the names of the parts, in the order of the table
PartNames(table) == [pk \in 1..Len(table) |-> table[pk].name]

\* C3: after a scan of a valid EAN, the next scan of the same EAN returns the
\* part the first one returned, and leaves the parts those that were there:
\* it creates none.
C3_ScanIdempotent ==
    [][(/\ IsScan(last)
        /\ is_valid_ean_code(last.arg[1]) = "True"
        /\ IsScan(last')
        /\ last'.arg[1] = last.arg[1])
       => (/\ last.ret.raised = "None"
           /\ last.ret.pk # 0
           /\ last'.ret.raised = "None"
           /\ last'.ret.pk = last.ret.pk
           /\ PartNames(parts') = PartNames(parts))]_vars

\* C3: an EAN has been scanned twice in a row; the first scan built the part
\* with its two supplier parts, the second one returned that part
C3_Witness ==
    /\ IsScan(prev)
    /\ IsScan(last)
    /\ prev.arg[1] = GOOD_EAN_8
    /\ last.arg[1] = GOOD_EAN_8
    /\ prev.ret.created
    /\ ~last.ret.created
    /\ last.ret.pk = prev.ret.pk
    /\ parts[last.ret.pk].name = LS
    /\ Len(supplier_parts) = 2

\* two items for one EAN, of one name, of two supplier tags
TwoRecordsTwoTags(datanorm_items) ==
    /\ Len(datanorm_items) = 2
    /\ datanorm_items[1].ean = datanorm_items[2].ean
    /\ datanorm_items[1].item_name = datanorm_items[2].item_name
    /\ datanorm_items[1].tag # datanorm_items[2].tag

CarriesManufacturer(di) == di.manufacturer_name # None

\* the first of the items that carries a manufacturer name
FirstWithManufacturer(datanorm_items) ==
    CHOOSE k \in 1..Len(datanorm_items) :
        /\ CarriesManufacturer(datanorm_items[k])
        /\ \A j \in 1..(k - 1) : ~CarriesManufacturer(datanorm_items[j])

\* a stored company name that the lookup of a name takes for it
Resembles(stored, name) ==
    \/ IF db_like_ci THEN Contains(Lower(stored), Lower(name)) ELSE Contains(stored, name)
    \/ Lower(stored) = Lower(name)

\* one part, and the two supplier parts of it, in the order of the items
OnePartTwoSupplierParts(datanorm_items) ==
    /\ Len(parts) = 1
    /\ Len(supplier_parts) = 2
    /\ \A i \in 1..2 :
          /\ supplier_parts[i].part = 1
          /\ supplier_parts[i].SKU = datanorm_items[i].article_id

\* C4, as the specification states it: the build of two items for one EAN, of
\* one name and two supplier tags, one of them at least with a manufacturer
\* name, on empty tables leaves one part, one manufacturer part of it whose
\* company has the manufacturer name of the first item that carries one, and
\* two supplier parts of it, one per item in their order.
C4_MergeLaw ==
    (/\ IsBuild(last)
     /\ TwoRecordsTwoTags(last.arg[1])
     /\ \E i \in 1..2 : CarriesManufacturer(last.arg[1][i]))
    => LET datanorm_items == last.arg[1]
           k == FirstWithManufacturer(datanorm_items)
       IN  /\ OnePartTwoSupplierParts(datanorm_items)
           /\ Len(manufacturer_parts) = 1
           /\ manufacturer_parts[1].part = 1
           /\ companies[manufacturer_parts[1].manufacturer].name =
                  datanorm_items[k].manufacturer_name

\* C4, amended: that build leaves one part and its two supplier parts, one per
\* item in their order; no manufacturer part if no item carries a manufacturer
\* name; else one manufacturer part of the part, which both supplier parts
\* refer to, and whose company has the manufacturer name of the first item
\* that carries one, unless that item is the second and the first item's
\* supplier tag resembles the name (holds it, or is equal to it but for case):
\* then the company is the first item's supplier, named by its tag.
C4_MergeLawResolved ==
    (IsBuild(last) /\ TwoRecordsTwoTags(last.arg[1]))
    => LET datanorm_items == last.arg[1]
       IN  /\ OnePartTwoSupplierParts(datanorm_items)
           /\ IF \A i \in 1..2 : ~CarriesManufacturer(datanorm_items[i])
              THEN /\ manufacturer_parts = <<>>
                   /\ \A i \in 1..2 : supplier_parts[i].manufacturer_part = 0
              ELSE LET k == FirstWithManufacturer(datanorm_items)
                       manufacturer_name == datanorm_items[k].manufacturer_name
                   IN  /\ Len(manufacturer_parts) = 1
                       /\ manufacturer_parts[1].part = 1
                       /\ \A i \in 1..2 : supplier_parts[i].manufacturer_part = 1
                       /\ companies[manufacturer_parts[1].manufacturer].name =
                             IF k = 2 /\ Resembles(datanorm_items[1].tag, manufacturer_name)
                             THEN datanorm_items[1].tag
                             ELSE manufacturer_name

\* C4: supplier Hager's item without a manufacturer name and supplier Obo's
\* item of manufacturer Hag have been built: the manufacturer part's company
\* is the supplier Hager
C4_Witness ==
    /\ IsBuild(last)
    /\ last.arg[1] =
          <<DatanormItem(GOOD_EAN_13_1, Hager, LS, <<"Schalter", "Elektro">>, None),
            DatanormItem(GOOD_EAN_13_1, Obo, LS, <<"Schalter", "Elektro">>, Hag)>>
    /\ Len(manufacturer_parts) = 1
    /\ companies[manufacturer_parts[1].manufacturer].name = Hager
    /\ \A i \in 1..2 : supplier_parts[i].manufacturer_part = 1

\* C5: a build whose first item has the name of a stored part creates no part:
\* that part's keywords become the old ones, "," and the first item's EAN, the
\* other parts stay as they are, and the build returns that part.
C5_KeywordAccumulation ==
    [][(/\ IsBuild(last')
        /\ \E pk \in 1..Len(parts) : parts[pk].name = last'.arg[1][1].item_name)
       => LET di == last'.arg[1][1]
          IN  /\ Len(parts') = Len(parts)
              /\ \A pk \in 1..Len(parts) :
                    parts'[pk] = IF parts[pk].name = di.item_name
                                 THEN [parts[pk] EXCEPT !.keywords = @ \o <<",">> \o di.ean]
                                 ELSE parts[pk]
              /\ parts[last'.ret].name = di.item_name]_vars

\* C5: the part built for one EAN has got a second EAN by a build of an item of
\* its name
C5_Witness ==
    /\ IsBuild(last)
    /\ last.arg[1][1].ean = GOOD_EAN_13_1
    /\ Len(parts) = 1
    /\ parts[1].keywords = <<"M", "C", "S", ",">> \o GOOD_EAN_8 \o <<",">> \o GOOD_EAN_13_1

\* a scan that has created a part from items found
BuildsNewPart ==
    /\ IsScan(last')
    /\ last'.arg[2] # <<>>
    /\ Len(parts') = Len(parts) + 1

\* C6: a part newly built from items whose first has neither a product group
\* name nor a main product group name is in the category named by the setting
\* DEFAULT_CATEGORY, whatever USE_DEFAULT_CATEGORY is.
C6_DefaultCategory ==
    [][(/\ BuildsNewPart
        /\ last'.arg[2][1].product_group_name = ""
        /\ last'.arg[2][1].main_product_group_name = "")
       => categories'[parts'[Len(parts')].category].name =
             settings.DEFAULT_CATEGORY]_vars

\* C6: with USE_DEFAULT_CATEGORY off, a part built from an item without group
\* names is in the category "Fallback Category"
C6_Witness ==
    /\ IsScan(last)
    /\ last.ret.created
    /\ last.arg[2] # <<>>
    /\ last.arg[2][1].product_group_name = ""
    /\ last.arg[2][1].main_product_group_name = ""
    /\ settings.USE_DEFAULT_CATEGORY = "False"
    /\ categories[parts[last.ret.pk].category].name = FallbackCategory

\* a scan, the categories of the items left as they are, that has created a
\* part from items whose first has a main product group name only
BuildsNewPartOfMainGroup ==
    /\ BuildsNewPart
    /\ settings.USE_DEFAULT_CATEGORY = "False"
    /\ last'.arg[2][1].product_group_name = ""
    /\ last'.arg[2][1].main_product_group_name # ""

\* C7, as the specification states it: a part newly built from an item with a
\* main product group name only is in a category of that name without parent,
\* whatever categories were stored.
C7_MainGroupIsRoot ==
    [][BuildsNewPartOfMainGroup
       => LET category == categories'[parts'[Len(parts')].category]
          IN  /\ category.name = last'.arg[2][1].main_product_group_name
              /\ category.parent = 0]_vars

\* C7, amended: that part is in a category of that name: one that was stored,
\* at whatever level, if there was one, and no category is created; else a
\* new one without parent.
C7_MainGroupIsFoundOrRoot ==
    [][BuildsNewPartOfMainGroup
       => LET category_name == last'.arg[2][1].main_product_group_name
              pk == parts'[Len(parts')].category
              stored == {c \in 1..Len(categories) : categories[c].name = category_name}
          IN  /\ categories'[pk].name = category_name
              /\ IF stored = {}
                 THEN /\ pk = Len(categories) + 1
                      /\ categories' = Append(categories,
                                              [name |-> category_name, parent |-> 0])
                 ELSE /\ pk \in stored
                      /\ categories' = categories]_vars

\* C7: a part built from an item with a main product group name only is in a
\* stored category of that name that has a parent
C7_Witness ==
    /\ IsScan(last)
    /\ last.ret.created
    /\ last.arg[2] # <<>>
    /\ last.arg[2][1].product_group_name = ""
    /\ last.arg[2][1].main_product_group_name = "Elektro"
    /\ settings.USE_DEFAULT_CATEGORY = "False"
    /\ categories[parts[last.ret.pk].category].name = "Elektro"
    /\ categories[parts[last.ret.pk].category].parent # 0

\* a lookup of a company with these flags
ResolvesAs(call, set_supplier, set_manufacturer) ==
    /\ call.op = "get_company_by_name"
    /\ call.arg[2] = set_supplier
    /\ call.arg[3] = set_manufacturer

\* C8: where no stored company has a name that holds n, case ignored, the
\* lookup of n as a supplier and then of n', n but for the case of letters, as
\* a manufacturer leave one company more, which both return: a supplier and a
\* manufacturer of name n. The tables before the first lookup are those after
\* it but for the company it created.
C8_RoleMerge ==
    [][(/\ ResolvesAs(last, TRUE, FALSE)
        /\ ResolvesAs(last', FALSE, TRUE)
        /\ last'.arg[1] # last.arg[1]
        /\ SameIgnoringCase(last'.arg[1], last.arg[1])
        /\ last.ret.created
        /\ \A c \in 1..Len(companies) :
              c # last.ret.pk => ~Contains(Lower(companies[c].name), Lower(last.arg[1])))
       => (/\ last'.ret.pk = last.ret.pk
           /\ companies' = [companies EXCEPT ![last.ret.pk] =
                               [name |-> last.arg[1], is_supplier |-> TRUE,
                                is_manufacturer |-> TRUE]])]_vars

\* C8: Hag has been looked up as a supplier and created, then HAG as a
\* manufacturer, on a database whose LIKE tells the two apart
C8_Witness ==
    /\ ~db_like_ci
    /\ prev = [op |-> "get_company_by_name", arg |-> <<Hag, TRUE, FALSE>>,
               ret |-> [pk |-> Len(companies), created |-> TRUE]]
    /\ last = [op |-> "get_company_by_name", arg |-> <<HAG, FALSE, TRUE>>,
               ret |-> [pk |-> Len(companies), created |-> FALSE]]
    /\ companies[Len(companies)] =
          [name |-> Hag, is_supplier |-> TRUE, is_manufacturer |-> TRUE]

\* C9: a company stays, and is a supplier ever after it is one, and a
\* manufacturer ever after it is one, whatever lookups and builds follow.
C9_RoleFlagsMonotone ==
    [][\A c \in 1..Len(companies) :
          /\ c <= Len(companies')
          /\ companies[c].is_supplier => companies'[c].is_supplier
          /\ companies[c].is_manufacturer => companies'[c].is_manufacturer]_vars

\* C9: a company that is a supplier has been looked up with set_supplier
\* false, and is a supplier still
C9_Witness ==
    /\ last.op = "get_company_by_name"
    /\ ~last.arg[2]
    /\ ~last.ret.created
    /\ companies[last.ret.pk].is_supplier

\* C10: format_si_units returns "m" for MTR, M and LFM, "kg" for KG, and ""
\* for every other string, STCK, STK, VE and the empty string among them, the
\* letters' case ignored.
C10_UnitTable ==
    last.op = "format_si_units" =>
        LET unit == last.arg[1]
        IN  last.ret =
               IF \E u \in {<<"M", "T", "R">>, <<"M">>, <<"L", "F", "M">>} :
                      SameIgnoringCase(unit, u)
               THEN <<"m">>
               ELSE IF SameIgnoringCase(unit, <<"K", "G">>) THEN <<"k", "g">>
               ELSE <<>>

\* C10: "kG" has been mapped to "kg"
C10_Witness ==
    /\ last.op = "format_si_units"
    /\ last.arg[1] = <<"k", "G">>
    /\ last.ret = <<"k", "g">>

\* C11: no two stored categories have the same name and the same parent,
\* whatever lookups of categories, with or without a parent name, were made
\* on the tables, empty at first.
C11_CategoryUniqueness ==
    \A a, b \in 1..Len(categories) :
        (/\ categories[a].name = categories[b].name
         /\ categories[a].parent = categories[b].parent) => a = b

\* C11: a lookup has left a category of a name below a category of the same
\* name
C11_Witness ==
    /\ last.op = "get_category_by_name"
    /\ \E a, b \in 1..Len(categories) :
          /\ a # b
          /\ categories[a].name = categories[b].name
          /\ categories[b].parent = a

\* a lookup of a company has just returned
LooksUpCompany(call) == call.op = "get_company_by_name"

\* the lookup that has just returned found a company that was stored, and
\* stored none
FindsStoredCompany ==
    /\ ~last'.ret.created
    /\ last'.ret.pk \in 1..Len(companies)
    /\ Len(companies') = Len(companies)
    /\ \A c \in 1..Len(companies) : companies'[c].name = companies[c].name

\* C12 as stated: get_company_by_name(n) returns a stored company and creates
\* none whenever a stored name contains n, or n contains a stored name, or a
\* stored name equals n ignoring case.
C12_FuzzyMatchSymmetric ==
    [][(/\ LooksUpCompany(last')
        /\ \E c \in 1..Len(companies) :
              \/ Contains(companies[c].name, last'.arg[1])
              \/ Contains(last'.arg[1], companies[c].name)
              \/ SameIgnoringCase(companies[c].name, last'.arg[1]))
       => FindsStoredCompany]_vars

\* C12: get_company_by_name(n) returns a stored company and creates none
\* whenever a stored name contains n or equals n ignoring case; where no
\* stored name contains n, also with the case of letters ignored, it creates a
\* company of name n with the flags given, though n may contain a stored name.
C12_FuzzyMatchOneWay ==
    [][LooksUpCompany(last') =>
          /\ (\E c \in 1..Len(companies) :
                 \/ Contains(companies[c].name, last'.arg[1])
                 \/ SameIgnoringCase(companies[c].name, last'.arg[1]))
             => FindsStoredCompany
          /\ (\A c \in 1..Len(companies) :
                 ~Contains(Lower(companies[c].name), Lower(last'.arg[1])))
             => /\ last'.ret.created
                /\ companies' = Append(companies,
                                       [name |-> last'.arg[1],
                                        is_supplier |-> last'.arg[2],
                                        is_manufacturer |-> last'.arg[3]])]_vars

\* C12: the lookup of Hag has returned the stored company Hager
C12_Witness ==
    /\ LooksUpCompany(last)
    /\ last.arg[1] = Hag
    /\ ~last.ret.created
    /\ companies[last.ret.pk].name = Hager

\* a code of digits, one at least, that is no EAN-8 and no EAN-13 with the
\* right check digit
RejectedDigits(code) ==
    /\ code # <<>>
    /\ AllDigits(code)
    /\ \/ Len(code) \notin EanLengths
       \/ DigitValue(code[Len(code)]) # GtinCheckDigit(AllButLast(code))

\* C13: the scan of a code of digits of a wrong length, or of 8 or 13 digits
\* with a wrong check digit, returns no part, raises nothing, has not read the
\* DATANORM files, and leaves every table as it was.
C13_RejectedScanLeavesStore ==
    [][(IsScan(last') /\ RejectedDigits(last'.arg[1]))
       => (/\ last'.ret = [pk |-> 0, created |-> FALSE, raised |-> "None"]
           /\ last'.arg[2] = <<>>
           /\ store' = store)]_vars

\* C13: with parts stored, the scan of BAD_EAN2, 13 digits with a wrong check
\* digit, has returned no part
C13_Witness ==
    /\ IsScan(last)
    /\ last.arg[1] = BAD_EAN2
    /\ last.ret.pk = 0
    /\ Len(parts) > 0
    /\ Len(supplier_parts) > 0

\* a scan of a valid code that no part has in its keywords, and for which the
\* DATANORM files hold no item
CreatesPlaceholder ==
    /\ IsScan(last')
    /\ SearchesDatanormFiles(last'.arg[1])
    /\ last'.arg[2] = <<>>

\* C14: the scan of a valid code, in no part's keywords and in no DATANORM
\* file, stores one part more: of name "Unbekanntes Teil (EAN:<code>)", of
\* keywords and barcode data the code, in a category of the name the setting
\* DEFAULT_CATEGORY gives; the parts before, the companies, the manufacturer
\* parts and the supplier parts stay as they were.
C14_PlaceholderOnMiss ==
    [][CreatesPlaceholder
       => (/\ Len(parts') = Len(parts) + 1
           /\ SubSeq(parts', 1, Len(parts)) = parts
           /\ last'.ret = [pk |-> Len(parts'), created |-> TRUE, raised |-> "None"]
           /\ parts'[Len(parts')].name = EmptyPartName(last'.arg[1])
           /\ parts'[Len(parts')].keywords = last'.arg[1]
           /\ parts'[Len(parts')].barcode_data = last'.arg[1]
           /\ parts'[Len(parts')].category \in 1..Len(categories')
           /\ categories'[parts'[Len(parts')].category].name = settings.DEFAULT_CATEGORY
           /\ companies' = companies
           /\ manufacturer_parts' = manufacturer_parts
           /\ supplier_parts' = supplier_parts)]_vars

\* C14: a scan has stored the placeholder part for GOOD_EAN_8 in the category
\* Elektro that a lookup had stored below another category
C14_Witness ==
    /\ IsScan(last)
    /\ last.arg = <<GOOD_EAN_8, <<>>>>
    /\ last.ret.created
    /\ settings.DEFAULT_CATEGORY = "Elektro"
    /\ parts[last.ret.pk].name = EmptyPartName(GOOD_EAN_8)
    /\ categories[parts[last.ret.pk].category].name = "Elektro"
    /\ categories[parts[last.ret.pk].category].parent # 0

\* the items that carry a manufacturer name that is not empty
NamesManufacturer(datanorm_items) ==
    {k \in 1..Len(datanorm_items) :
        datanorm_items[k].manufacturer_name \notin {None, <<>>}}

\* C15 as stated: a build creates a manufacturer part only for the first of
\* its items with a manufacturer name that is not empty, for that company and
\* with that item's alternative article id; a build none of whose items has
\* such a name creates no manufacturer part and leaves is_manufacturer of
\* every company as it was.
C15_OneManufacturerPart ==
    [][IsBuild(last') =>
          LET datanorm_items == last'.arg[1]
              named == NamesManufacturer(datanorm_items)
          IN  IF named = {}
              THEN /\ manufacturer_parts' = manufacturer_parts
                   /\ \A c \in 1..Len(companies') :
                         companies'[c].is_manufacturer =
                            (c <= Len(companies) /\ companies[c].is_manufacturer)
              ELSE LET di == datanorm_items[CHOOSE k \in named : \A j \in named : k <= j]
                   IN  /\ Len(manufacturer_parts') = Len(manufacturer_parts) + 1
                       /\ SubSeq(manufacturer_parts', 1, Len(manufacturer_parts))
                             = manufacturer_parts
                       /\ LET m_part == manufacturer_parts'[Len(manufacturer_parts')]
                          IN  /\ m_part.part = last'.ret
                              /\ m_part.MPN = di.alt_article_id
                              /\ Resembles(companies'[m_part.manufacturer].name,
                                           di.manufacturer_name)
                              /\ companies'[m_part.manufacturer].is_manufacturer]_vars

\* C15: a build from one item, whose manufacturer name is the empty string,
\* has stored a manufacturer part, of the company Obo that an earlier build
\* stored as a supplier
C15_Witness ==
    /\ IsBuild(last)
    /\ Len(last.arg[1]) = 1
    /\ last.arg[1][1].manufacturer_name = <<>>
    /\ Len(manufacturer_parts) = 1
    /\ Len(supplier_parts) = 2
    /\ companies[manufacturer_parts[1].manufacturer].name = Obo
    /\ companies[manufacturer_parts[1].manufacturer].is_manufacturer

\* C16: a build from N items stores N supplier parts more and leaves the ones
\* stored before as they were; if it stored a manufacturer part, each of the
\* N supplier parts refers to it, those of the items before the one the
\* manufacturer came from too; if it stored none, none of the N refers to a
\* manufacturer part.
C16_TwoPassBackfill ==
    [][IsBuild(last') =>
          /\ Len(supplier_parts') = Len(supplier_parts) + Len(last'.arg[1])
          /\ SubSeq(supplier_parts', 1, Len(supplier_parts)) = supplier_parts
          /\ Len(manufacturer_parts') \in
                {Len(manufacturer_parts), Len(manufacturer_parts) + 1}
          /\ \A s \in (Len(supplier_parts) + 1)..Len(supplier_parts') :
                supplier_parts'[s].manufacturer_part =
                   IF Len(manufacturer_parts') > Len(manufacturer_parts)
                   THEN Len(manufacturer_parts')
                   ELSE 0]_vars

\* C16: a build from an item without manufacturer name and then an item of
\* manufacturer Hager has stored two supplier parts, the first of which refers
\* to the manufacturer part
C16_Witness ==
    /\ IsBuild(last)
    /\ Len(last.arg[1]) = 2
    /\ last.arg[1][1].manufacturer_name = None
    /\ last.arg[1][2].manufacturer_name = Hager
    /\ Len(supplier_parts) = 2
    /\ Len(manufacturer_parts) = 1
    /\ supplier_parts[1].manufacturer_part = 1

\* the supplier parts a build has just stored, one per item in their order,
\* for the part it returns, each with its item's article id, of a company that
\* is a supplier; the supplier parts stored before are as they were
StoresSupplierParts(datanorm_items) ==
    /\ Len(supplier_parts') = Len(supplier_parts) + Len(datanorm_items)
    /\ SubSeq(supplier_parts', 1, Len(supplier_parts)) = supplier_parts
    /\ \A i \in 1..Len(datanorm_items) :
          LET s_part == supplier_parts'[Len(supplier_parts) + i]
          IN  /\ s_part.part = last'.ret
              /\ s_part.SKU = datanorm_items[i].article_id
              /\ s_part.supplier \in 1..Len(companies')
              /\ companies'[s_part.supplier].is_supplier

\* the company of the supplier part stored for the i-th item of the build
SupplierOf(i) == supplier_parts'[Len(supplier_parts) + i].supplier

\* C17 as stated: a build from N items stores N supplier parts for the part,
\* the i-th with the i-th item's article id and of a supplier company whose
\* name is the i-th item's tag; items of pairwise different tags get pairwise
\* different companies.
C17_SupplierPerRecord ==
    [][IsBuild(last') =>
          LET datanorm_items == last'.arg[1]
          IN  /\ StoresSupplierParts(datanorm_items)
              /\ \A i \in 1..Len(datanorm_items) :
                    companies'[SupplierOf(i)].name = datanorm_items[i].tag
              /\ \A i, j \in 1..Len(datanorm_items) :
                    datanorm_items[i].tag # datanorm_items[j].tag
                       => SupplierOf(i) # SupplierOf(j)]_vars

\* no company stored before the build, no other item's tag and no item's
\* manufacturer name holds the tag of the i-th item, the case of letters
\* ignored
TagIsNew(datanorm_items, i) ==
    LET tag == Lower(datanorm_items[i].tag)
    IN  /\ \A c \in 1..Len(companies) : ~Contains(Lower(companies[c].name), tag)
        /\ \A j \in 1..Len(datanorm_items) :
              /\ datanorm_items[j].tag # datanorm_items[i].tag
                    => ~Contains(Lower(datanorm_items[j].tag), tag)
              /\ CarriesManufacturer(datanorm_items[j])
                    => ~Contains(Lower(datanorm_items[j].manufacturer_name), tag)

\* C17, amended: a build from N items stores N supplier parts for the part,
\* the i-th with the i-th item's article id and of a supplier company whose
\* name resembles the i-th item's tag (holds it, or is equal to it but for
\* case). The name is the tag where no company stored before, no other tag
\* and no manufacturer name of the build holds the tag, case ignored; items of
\* different tags of which this is true get different companies.
C17_SupplierPerRecordResolved ==
    [][IsBuild(last') =>
          LET datanorm_items == last'.arg[1]
          IN  /\ StoresSupplierParts(datanorm_items)
              /\ \A i \in 1..Len(datanorm_items) :
                    /\ Resembles(companies'[SupplierOf(i)].name, datanorm_items[i].tag)
                    /\ TagIsNew(datanorm_items, i)
                          => companies'[SupplierOf(i)].name = datanorm_items[i].tag
              /\ \A i, j \in 1..Len(datanorm_items) :
                    (/\ datanorm_items[i].tag # datanorm_items[j].tag
                     /\ TagIsNew(datanorm_items, i)
                     /\ TagIsNew(datanorm_items, j))
                       => SupplierOf(i) # SupplierOf(j)]_vars

\* C17: a build from an item of tag Hager and then one of tag Hag has stored
\* two supplier parts, both of the company Hager
C17_Witness ==
    /\ IsBuild(last)
    /\ Len(last.arg[1]) = 2
    /\ last.arg[1][1].tag = Hager
    /\ last.arg[1][2].tag = Hag
    /\ Len(supplier_parts) = 2
    /\ supplier_parts[1].supplier = supplier_parts[2].supplier
    /\ companies[supplier_parts[2].supplier].name = Hager
    /\ supplier_parts[2].SKU = last.arg[1][2].article_id

\* C18 as stated, the unit price read as the wholesale price that the build
\* stores: each supplier part a build stores has one price break, of quantity
\* 1, of the item's wholesale price in the item's currency, whatever the
\* item's price unit and wholesale price.
C18_PriceBreakAtQuantityOne ==
    [][IsBuild(last') =>
          \A i \in 1..Len(last'.arg[1]) :
             LET di == last'.arg[1][i]
                 s_part == supplier_parts'[Len(supplier_parts) + i]
             IN  s_part.price_breaks =
                    <<[quantity |-> 1, price |-> di.price_wholesale,
                       currency |-> di.currency]>>]_vars

\* C18: a build from an item of price unit 100 has stored a supplier part
\* whose one price break is of quantity 100
C18_Witness ==
    /\ IsBuild(last)
    /\ Len(last.arg[1]) = 1
    /\ last.arg[1][1].price_unit = 100
    /\ last.arg[1][1].price_wholesale = 9000
    /\ supplier_parts[Len(supplier_parts)].price_breaks =
          <<[quantity |-> 100, price |-> 9000, currency |-> "EUR"]>>

\* the category of the part that the scan has just stored
NewPartCategory == categories'[parts'[Len(parts')].category]

\* C19: a part that a scan newly builds from items is, with
\* USE_DEFAULT_CATEGORY on, in a category of the name DEFAULT_CATEGORY gives,
\* whatever the group names of the items: one stored before, or else a new one
\* without parent. With the setting off it is in the category the first
\* item's group names give: the product group below the main product group,
\* or the one of the two that is not empty.
C19_CategoryOverride ==
    [][BuildsNewPart =>
          LET di == last'.arg[2][1]
          IN  IF settings.USE_DEFAULT_CATEGORY = "True"
              THEN /\ NewPartCategory.name = settings.DEFAULT_CATEGORY
                   /\ (\A c \in 1..Len(categories) :
                          categories[c].name # settings.DEFAULT_CATEGORY)
                      => /\ NewPartCategory.parent = 0
                         /\ Len(categories') = Len(categories) + 1
              ELSE /\ di.product_group_name # ""
                      => /\ NewPartCategory.name = di.product_group_name
                         /\ di.main_product_group_name # ""
                               => /\ NewPartCategory.parent # 0
                                  /\ categories'[NewPartCategory.parent].name =
                                        di.main_product_group_name
                   /\ (di.product_group_name = "" /\ di.main_product_group_name # "")
                      => NewPartCategory.name = di.main_product_group_name]_vars

\* C19: with USE_DEFAULT_CATEGORY on and DEFAULT_CATEGORY "Lager", a scan has
\* built a part from an item of product group Schalter in main product group
\* Elektro: the part is in the category Lager, and no category Schalter is
\* stored
C19_Witness ==
    /\ IsScan(last)
    /\ last.ret.created
    /\ last.arg[2] # <<>>
    /\ last.arg[2][1].product_group_name = "Schalter"
    /\ last.arg[2][1].main_product_group_name = "Elektro"
    /\ settings.USE_DEFAULT_CATEGORY = "True"
    /\ settings.DEFAULT_CATEGORY = "Lager"
    /\ categories[parts[last.ret.pk].category] = [name |-> "Lager", parent |-> 0]
    /\ \A c \in 1..Len(categories) : categories[c].name # "Schalter"

\* a supplier part has just been asked for, for an item of a supplier with a
\* web site whose server fails: no connection, a status other than 200, or a
\* response without what the web site class reads
EnrichmentFails ==
    /\ last'.op = "create_supplier_part_from_datanorm_item"
    /\ get_supplier_website(last'.arg[1].tag) # None
    /\ last'.arg[2] # Complete

\* C20 as stated: where the server of a known supplier fails, the web site
\* object is made and its get_part_url and get_part_img_url return, the image
\* URL being the empty string, nothing is raised, and the supplier part is
\* stored, with the supplier's URL for the article as its link.
C20_EnrichmentNeverRaises ==
    [][EnrichmentFails
       => (/\ last'.ret.raised = "None"
           /\ last'.ret.img_url = <<>>
           /\ Len(supplier_parts') = Len(supplier_parts) + 1
           /\ last'.ret.pk = Len(supplier_parts')
           /\ supplier_parts'[last'.ret.pk].SKU = last'.arg[1].article_id
           /\ supplier_parts'[last'.ret.pk].link # <<>>)]_vars

\* C20: the server of Zander has answered 404: the call for the supplier part
\* has raised TypeError, the company Zander is stored and no supplier part
C20_Witness ==
    /\ last.op = "create_supplier_part_from_datanorm_item"
    /\ last.arg[1].tag = Zander
    /\ last.arg[2] = [status |-> "404", body |-> "none"]
    /\ last.ret = [pk |-> 0, raised |-> "TypeError", img_url |-> <<>>]
    /\ Len(companies) = 1
    /\ companies[1].name = Zander
    /\ supplier_parts = <<>>

\* a scan of a valid code that a stored part has in its keywords
HitsKeyword ==
    /\ IsScan(last')
    /\ is_valid_ean_code(last'.arg[1]) = "True"
    /\ \E pk \in 1..Len(parts) : Contains(parts[pk].keywords, last'.arg[1])

\* the part row with the code as its barcode
WithBarcode(part, code) ==
    [part EXCEPT !.barcode_data = code, !.barcode_hash = hash_barcode(code)]

IsPlaceholder(part) == \E code \in FaultCodes : part.name = EmptyPartName(code)

\* the part pk has the name of the items of a code and, for every one of
\* these items, a supplier part of the item's article id
HasAllSupplierParts(pk) ==
    \E code \in FaultCodes :
        /\ search_ean_in_datanorm_files(code) # <<>>
        /\ parts[pk].name = search_ean_in_datanorm_files(code)[1].item_name
        /\ \A i \in 1..Len(search_ean_in_datanorm_files(code)) :
              \E k \in 1..Len(supplier_parts) :
                 /\ supplier_parts[k].part = pk
                 /\ supplier_parts[k].SKU = search_ean_in_datanorm_files(code)[i].article_id

\* C22: the part a scan returns, whatever the servers answered during this
\* scan and the scans before, is a stored part that is a placeholder or has
\* the supplier parts of all items of the build that created it.
C22_NoHalfBuiltReference ==
    (IsScan(last) /\ last.ret.pk # 0)
    => (/\ last.ret.pk \in 1..Len(parts)
        /\ \/ IsPlaceholder(parts[last.ret.pk])
           \/ HasAllSupplierParts(last.ret.pk))

\* C22: the scan of GOOD_EAN_8 ended in a TypeError after it had saved the
\* part, and the next scan of GOOD_EAN_8 has returned that part, which has no
\* supplier part
C22_Witness ==
    /\ IsScan(prev)
    /\ prev.arg[1] = GOOD_EAN_8
    /\ prev.ret = [pk |-> 0, created |-> TRUE, raised |-> "TypeError"]
    /\ IsScan(last)
    /\ last.arg[1] = GOOD_EAN_8
    /\ last.ret = [pk |-> 1, created |-> FALSE, raised |-> "None"]
    /\ parts[1].name = LS
    /\ supplier_parts = <<>>

\* a category lookup with a parent name
LooksUpCategoryBelow(call) == call.op = "get_category_by_name" /\ call.arg[2] # ""

\* the categories of a name / of a name below the category parent
CategoriesNamed(table, name) == {pk \in 1..Len(table) : table[pk].name = name}

ChildrenNamed(table, name, parent) ==
    {pk \in CategoriesNamed(table, name) : table[pk].parent = parent}

\* C23: get_category_by_name(name, parentName) with a parent name returns a
\* stored category of that name whose parent is a stored category of the
\* parent name; the categories stored before stay as they were; a parent is
\* created only when no category had the parent name, a child only when the
\* parent had no child of the name; and the same call made again at once
\* returns the same category and creates nothing.
C23_FindOrCreateBelowParent ==
    [][LooksUpCategoryBelow(last')
       => (/\ last'.ret \in 1..Len(categories')
           /\ categories'[last'.ret].name = last'.arg[1]
           /\ categories'[last'.ret].parent \in 1..Len(categories')
           /\ categories'[categories'[last'.ret].parent].name = last'.arg[2]
           /\ SubSeq(categories', 1, Len(categories)) = categories
           /\ Len(categories') - Len(categories) =
                 (IF CategoriesNamed(categories, last'.arg[2]) = {} THEN 1 ELSE 0)
                 + (IF ChildrenNamed(categories, last'.arg[1],
                                     categories'[last'.ret].parent) = {}
                    THEN 1 ELSE 0)
           /\ (LooksUpCategoryBelow(last) /\ last.arg = last'.arg)
                 => (last'.ret = last.ret /\ categories' = categories))]_vars


\* C23: the lookup of Elektro below Elektro was made twice in a row: the
\* first call stored the parent and the child, the second returned the child
\* and stored nothing
C23_Witness ==
    /\ LooksUpCategoryBelow(prev)
    /\ LooksUpCategoryBelow(last)
    /\ prev.arg = <<"Elektro", "Elektro">>
    /\ last.arg = <<"Elektro", "Elektro">>
    /\ prev.ret = 2
    /\ last.ret = 2
    /\ categories = <<[name |-> "Elektro", parent |-> 0],
                      [name |-> "Elektro", parent |-> 1]>>

\* the keyword is one of the elements of the comma-joined keywords
HasKeyword(keywords, keyword) ==
    \E i \in 1..Len(keywords) :
        /\ i + Len(keyword) - 1 <= Len(keywords)
        /\ SubSeq(keywords, i, i + Len(keyword) - 1) = keyword
        /\ i = 1 \/ keywords[i - 1] = ","
        /\ i + Len(keyword) - 1 = Len(keywords) \/ keywords[i + Len(keyword)] = ","

\* C24: the part that the scan of a valid code returns has the code as one of
\* the elements of its comma-joined keywords.
C24_KeywordIsWholeElement ==
    (/\ IsScan(last)
     /\ is_valid_ean_code(last.arg[1]) = "True"
     /\ last.ret.pk # 0)
    => HasKeyword(parts[last.ret.pk].keywords, last.arg[1])

\* C24: the scan of GOOD_EAN_8 has returned the part stored for LONG_EAN_13,
\* whose only keyword is that code of 13 digits
C24_Witness ==
    /\ IsScan(last)
    /\ last.arg[1] = GOOD_EAN_8
    /\ last.ret.pk = 1
    /\ ~last.ret.created
    /\ parts[1].keywords = LONG_EAN_13

\* the manufacturer parts of a part, and its supplier parts of one company
ManufacturerPartsOf(pk) ==
    {m \in 1..Len(manufacturer_parts) : manufacturer_parts[m].part = pk}

SupplierPartsOf(pk, company) ==
    {k \in 1..Len(supplier_parts) :
        supplier_parts[k].part = pk /\ supplier_parts[k].supplier = company}

\* C25: after any sequence of scans, every part has at most one manufacturer
\* part and, for every company, at most one supplier part of that company.
C25_OneRecordPerPartAndCompany ==
    \A pk \in 1..Len(parts) :
        /\ Cardinality(ManufacturerPartsOf(pk)) <= 1
        /\ \A company \in 1..Len(companies) :
              Cardinality(SupplierPartsOf(pk, company)) <= 1

\* C25: the scan of GOOD_EAN_13_1 found the part of GOOD_EAN_8 by the name
\* of its item and added the code to the part's keywords; the part has two
\* manufacturer parts, and two supplier parts of the company Obo, of two
\* article ids
C25_Witness ==
    /\ IsScan(prev)
    /\ IsScan(last)
    /\ prev.arg[1] = GOOD_EAN_8
    /\ last.arg[1] = GOOD_EAN_13_1
    /\ last.ret = [pk |-> 1, created |-> TRUE, raised |-> "None"]
    /\ Len(parts) = 1
    /\ parts[1].keywords = <<"M", "C", "S", ",">> \o GOOD_EAN_8 \o <<",">> \o GOOD_EAN_13_1
    /\ Cardinality(ManufacturerPartsOf(1)) = 2
    /\ Len(supplier_parts) = 2
    /\ supplier_parts[1].supplier = supplier_parts[2].supplier
    /\ companies[supplier_parts[1].supplier].name = Obo
    /\ supplier_parts[1].SKU # supplier_parts[2].SKU

\* no two rows of the table have names that are equal but for case
NoCaseDuplicates(table) ==
    \A i, j \in 1..Len(table) :
        SameIgnoringCase(table[i].name, table[j].name) => i = j

\* C26: after a get_company_by_name call, in a sequence of such calls from
\* the empty table, no two companies have names equal but for case; a call
\* that finds a stored company stores none, leaves every company's name as
\* it was and every other company's row as it was.
C26_NoCaseDuplicates ==
    [][LooksUpCompany(last')
       => (/\ NoCaseDuplicates(companies')
           /\ ~last'.ret.created
                 => (/\ Len(companies') = Len(companies)
                     /\ last'.ret.pk \in 1..Len(companies)
                     /\ \A pk \in 1..Len(companies) :
                           /\ companies'[pk].name = companies[pk].name
                           /\ pk # last'.ret.pk => companies'[pk] = companies[pk]))]_vars

\* C26: Hag and Obo are stored, and the lookup of HAG, on a database whose
\* LIKE tells HAG from Hag, has returned the company Hag and stored none
C26_Witness ==
    /\ ~db_like_ci
    /\ LooksUpCompany(prev)
    /\ LooksUpCompany(last)
    /\ prev.arg[1] = Obo
    /\ last.arg[1] = HAG
    /\ last.ret = [pk |-> 1, created |-> FALSE]
    /\ Len(companies) = 2
    /\ companies[1].name = Hag
    /\ companies[2].name = Obo
    /\ NoCaseDuplicates(companies)

=============================================================================
